---- MODULE Spec2Model ----
(***************************************************************************)
(* Model of streamlit_app.py: the TimeSeriesAnalysis class (grouped        *)
(* additive seasonal decomposition and the plotting of one stored result)  *)
(* and the Streamlit script that drives it through st.session_state.       *)
(*                                                                         *)
(* A float cell is "num" (finite), "nan" (missing) or "inf".  An index     *)
(* label i stands for month i: the string "YYYY-MM" under class "Index",   *)
(* the timestamp under class "DatetimeIndex".                              *)
(* Group keys are never missing (groupby would drop such rows).  The       *)
(* numeric content of trend, seasonal and residual is left to statsmodels; *)
(* the model keeps which points are finite and which are NaN.              *)
(***************************************************************************)
EXTENDS Integers, Sequences, FiniteSets, TLC

\* ---------------------------------------------------------------- bounds
MaxRows == 4
MaxIndexRows == 3
MaxCalls == 2

\* ------------------------------------------------------------- constants
DefaultPeriod == 12

GroupCols == {"PRODUTO", "UF"}
TimeCol == "ANO_MES"
Metric1 == "QTD_ADESAO"
Metric2 == "QTD_ComCOP"

\* Python's ordering of the group keys used by the model (str comparison).
KeyOrder == <<"AC", "Acre", "RR", "SOJA">>
AllKeys == {KeyOrder[i] : i \in 1..Len(KeyOrder)}
ApiKeys == {"AC", "RR"}
Values == {"num", "nan", "inf"}
Periods == {0, 1, 2}
IndexClasses == {"DatetimeIndex", "Index"}
\* What statsmodels raises when it is handed a period <= 0 (it does not
\* validate the period; the exception depends on where its arithmetic breaks).
LibFailures == {"ValueError", "Error"}

NoObj == [none |-> TRUE]
Absent == [absent |-> TRUE]
NoFile == [nofile |-> TRUE]
EmptyMap == [k \in {} |-> {}]
\* a widget the user has not touched, a plot not yet asked for
Unset == ""
\* "successful_groups" not in st.session_state
NoGroups == [present |-> FALSE, list |-> <<>>]

VARIABLES
  analysis,        \* the TimeSeriesAnalysis object (session_state["analysis"] in the UI)
  outcome,         \* how the last decompose_series call on it ended
  attempted,       \* groups handed to seasonal_decompose by that call, in order
  calls,           \* number of decompose_series calls on the object
  plot,            \* [group, outcome] of the last plot_decomposition call
  files,           \* the two CSV files of LOCAL_PATHS
  session_groups,  \* session_state["successful_groups"]: [present, list]
  groupby_option,  \* value of the grouping radio
  selected_display,\* value of the metric radio
  selected_full,   \* value of the group selectbox
  screen           \* what the last script run showed

uiVars == <<files, session_groups, groupby_option, selected_display, selected_full, screen>>
vars == <<analysis, outcome, attempted, calls, plot, files, session_groups,
          groupby_option, selected_display, selected_full, screen>>

\* ------------------------------------------------------------ sequences
RECURSIVE SelectUpTo(_, _, _)
\* the elements of s at the positions 1..n that lie in the set keep, in order
SelectUpTo(s, keep, n) ==
  IF n = 0 THEN <<>>
  ELSE IF n \in keep THEN Append(SelectUpTo(s, keep, n - 1), s[n])
  ELSE SelectUpTo(s, keep, n - 1)

SelectIdx(s, keep) == SelectUpTo(s, keep, Len(s))

Range(s) == {s[i] : i \in 1..Len(s)}
Image(f) == {f[x] : x \in DOMAIN f}
KeyRank(k) == CHOOSE i \in 1..Len(KeyOrder) : KeyOrder[i] = k

\* ---------------------------------------------------------------- pandas
\* A frame: [columns, index, rows]; index = [cls, labels]; rows[i] maps every
\* column to a cell.  A series: [index, values].

\* groupby as sort=False would have it: the distinct keys, in order of first row
GroupByFirstSeen(df, col) ==
  LET n == Len(df.rows)
      firsts == {i \in 1..n : \A j \in 1..(i - 1) : df.rows[j][col] # df.rows[i][col]}
  IN [i \in 1..Cardinality(firsts) |->
        df.rows[CHOOSE p \in firsts : Cardinality({q \in firsts : q <= p}) = i][col]]

\* df.groupby(col) with the default sort=True: the distinct keys, ascending
GroupBy(df, col) ==
  LET keys == {df.rows[i][col] : i \in 1..Len(df.rows)}
  IN [i \in 1..Cardinality(keys) |->
        CHOOSE k \in keys : Cardinality({x \in keys : KeyRank(x) <= KeyRank(k)}) = i]

\* the rows of one group: `data` of `for group, data in grouped`
GetGroup(df, col, group) ==
  LET keep == {i \in 1..Len(df.rows) : df.rows[i][col] = group}
  IN [columns |-> df.columns,
      index |-> [cls |-> df.index.cls, labels |-> SelectIdx(df.index.labels, keep)],
      rows |-> SelectIdx(df.rows, keep)]

\* data[[value_col]]
Project(data, col) ==
  [index |-> data.index, values |-> [i \in 1..Len(data.rows) |-> data.rows[i][col]]]

\* the series with its missing rows left in
DropNaNothing(s) == s

\* data.dropna(inplace=True): NaN is missing, inf is not
DropNa(s) ==
  LET keep == {i \in 1..Len(s.values) : s.values[i] # "nan"}
  IN [index |-> [cls |-> s.index.cls, labels |-> SelectIdx(s.index.labels, keep)],
      values |-> SelectIdx(s.values, keep)]

\* pd.to_datetime(index, format="%Y-%m", errors="coerce")
ToDatetime(index) == [cls |-> "DatetimeIndex", labels |-> index.labels]

\* ----------------------------------------------------------- statsmodels
\* seasonal_decompose(x, model='additive', period=period): ValueError on a
\* non-finite value or on fewer than 2*period observations; otherwise four
\* series on x's index, trend and resid being NaN on period \div 2 points at
\* each edge (centred moving average).
SeasonalDecompose(x, period, lib) ==
  LET n == Len(x.values)
      edge == [i \in 1..n |-> IF i <= period \div 2 \/ i > n - period \div 2
                               THEN "nan" ELSE "num"]
  IN IF \E i \in 1..n : x.values[i] # "num" THEN [raised |-> "ValueError"]
     ELSE IF period <= 0 THEN [raised |-> lib]
     ELSE IF n < 2 * period THEN [raised |-> "ValueError"]
     ELSE [raised |-> "none",
           value |-> [observed |-> [index |-> x.index, values |-> x.values],
                      trend |-> [index |-> x.index, values |-> edge],
                      seasonal |-> [index |-> x.index, values |-> [i \in 1..n |-> "num"]],
                      resid |-> [index |-> x.index, values |-> edge]]]

\* --------------------------------------------------- TimeSeriesAnalysis
\* __init__
NewAnalysis(df, groupby_col, value_col, period) ==
  [df |-> df, groupby_col |-> groupby_col, value_col |-> value_col, period |-> period,
   results |-> EmptyMap, successful_groups |-> <<>>]

\* a loop without the except clause
CaughtNothing(exc) == FALSE

\* `except ValueError: pass`
Caught(exc) == exc = "ValueError"

RECURSIVE DecomposeLoop(_, _, _, _)
\* the body of `for group, data in grouped`, over the remaining groups
DecomposeLoop(a, groups, att, lib) ==
  IF groups = <<>> THEN [analysis |-> a, outcome |-> "returned", attempted |-> att]
  ELSE IF a.value_col \notin a.df.columns
  THEN [analysis |-> a, outcome |-> "KeyError", attempted |-> att]
  ELSE LET group == Head(groups)
           data == DropNa(Project(GetGroup(a.df, a.groupby_col, group), a.value_col))
           r == SeasonalDecompose(data, a.period, lib)
       IN IF r.raised = "none"
          THEN DecomposeLoop([a EXCEPT !.results = (group :> r.value) @@ @,
                                       !.successful_groups = Append(@, group)],
                             Tail(groups), Append(att, group), lib)
          ELSE IF Caught(r.raised)
          THEN DecomposeLoop(a, Tail(groups), Append(att, group), lib)
          ELSE [analysis |-> a, outcome |-> r.raised, attempted |-> Append(att, group)]

\* decompose_series
DecomposeSeries(a, lib) ==
  IF a.groupby_col \notin a.df.columns
  THEN [analysis |-> a, outcome |-> "KeyError", attempted |-> <<>>]
  ELSE DecomposeLoop(a, GroupBy(a.df, a.groupby_col), <<>>, lib)

\* the loop over ["observed", "trend", "seasonal", "resid"] of plot_decomposition
CoerceSeries(series) ==
  IF series.index.cls # "DatetimeIndex"
  THEN [series EXCEPT !.index = ToDatetime(series.index)]
  ELSE series

CoerceResult(d) == [attr \in DOMAIN d |-> CoerceSeries(d[attr])]

\* plot_decomposition without its `group not in self.results` guard
PlotDecompositionNoGuard(a, group) ==
  IF group \in DOMAIN a.results
  THEN [analysis |-> [a EXCEPT !.results[group] = CoerceResult(@)], outcome |-> "chart"]
  ELSE [analysis |-> a, outcome |-> "KeyError"]

\* plot_decomposition decomposing again before it plots
PlotDecompositionRecompute(a, group) ==
  IF group \notin DOMAIN a.results
  THEN [analysis |-> a, outcome |-> "warning"]
  ELSE [analysis |-> [DecomposeSeries(a, "ValueError").analysis
                        EXCEPT !.results[group] = CoerceResult(@)],
        outcome |-> "chart"]

\* plot_decomposition: the guard, then the index coercion of the four components
PlotDecomposition(a, group) ==
  IF group \notin DOMAIN a.results
  THEN [analysis |-> a, outcome |-> "warning"]
  ELSE [analysis |-> [a EXCEPT !.results[group] = CoerceResult(@)], outcome |-> "chart"]

\* ------------------------------------------- the class used on its own
ApiRows == [UF : ApiKeys, QTD_ADESAO : Values]
\* the frames of at most n rows whose index is of one of the classes
ApiFrames(n, classes) ==
  UNION {{[columns |-> {"UF", Metric1},
           index |-> [cls |-> c, labels |-> [i \in 1..m |-> i]],
           rows |-> r] : r \in [1..m -> ApiRows], c \in classes} : m \in 0..n}

\* Constructor arguments: the frame's own columns with every period, and each
\* way of naming a column the frame lacks with the default period.
ApiArgs ==
  {<<"UF", Metric1, p>> : p \in Periods}
    \cup {<<"PRODUTO", Metric1, DefaultPeriod>>, <<"UF", Metric2, DefaultPeriod>>,
          <<"PRODUTO", Metric2, DefaultPeriod>>}

UiIdle ==
  /\ files = [o \in {"Produto", "Estado (UF)"} |-> NoFile]
  /\ session_groups = NoGroups
  /\ groupby_option = "Produto"
  /\ selected_display = Unset
  /\ selected_full = Unset
  /\ screen = "none"

Constructed(frames) ==
  /\ \E df \in frames, args \in ApiArgs :
       analysis = NewAnalysis(df, args[1], args[2], args[3])
  /\ outcome = "none"
  /\ attempted = <<>>
  /\ calls = 0
  /\ plot = [group |-> Unset, outcome |-> "none"]
  /\ UiIdle

\* an object built on a frame as load_data makes it (DatetimeIndex)
Init == Constructed(ApiFrames(MaxRows, {"DatetimeIndex"}))

\* an object built on a frame of either index class
InitAnyIndex == Constructed(ApiFrames(MaxIndexRows, IndexClasses))

Decompose(lib) ==
  /\ calls < MaxCalls
  /\ \E r \in {DecomposeSeries(analysis, lib)} :
        /\ analysis' = r.analysis
        /\ outcome' = r.outcome
        /\ attempted' = r.attempted
  /\ calls' = calls + 1
  /\ UNCHANGED <<plot, uiVars>>

Plot(group) ==
  /\ \E r \in {PlotDecomposition(analysis, group)} :
        /\ analysis' = r.analysis
        /\ plot' = [group |-> group, outcome |-> r.outcome]
  /\ UNCHANGED <<outcome, attempted, calls, uiVars>>

Next ==
  \/ \E lib \in LibFailures : Decompose(lib)
  \/ \E group \in ApiKeys : Plot(group)

\* ------------------------------------------------- the Streamlit script
Options == {"Produto", "Estado (UF)"}
\* groupby_col = "PRODUTO" if groupby_option == "Produto" else "UF"
GroupColOf(option) == IF option = "Produto" THEN "PRODUTO" ELSE "UF"

\* col_mapping and uf_mapping, on the names the model uses (accents dropped)
ColMapping == (Metric1 :> "Numero de Contratos de Adesao")
                @@ (Metric2 :> "Numero de Contratos Sinistrados")
UfMapping == ("AC" :> "Acre") @@ ("RR" :> "Roraima")
\* mapping.get(key, key)
Get(mapping, key) == IF key \in DOMAIN mapping THEN mapping[key] ELSE key

\* load_data: None (here Absent) unless the file exists and has ANO_MES; the
\* parsed ANO_MES column becomes the index
LoadData(fs, option) ==
  LET file == fs[option]
  IN IF file = NoFile THEN Absent
     ELSE IF TimeCol \notin file.columns THEN Absent
     ELSE [columns |-> file.columns \ {TimeCol},
           index |-> [cls |-> "DatetimeIndex", labels |-> file.labels],
           rows |-> file.rows]

\* df.select_dtypes(include=['number']).columns.tolist(): the metric columns,
\* in file order (the grouping column holds strings)
NumericColumns(df) == SelectSeq(<<Metric1, Metric2>>, LAMBDA c : c \in df.columns)

\* the distinct elements of a sequence, in order of first occurrence
DistinctInOrder(s) ==
  LET firsts == {i \in 1..Len(s) : \A j \in 1..(i - 1) : s[j] # s[i]}
  IN SelectIdx(s, firsts)

\* list(options.keys()) of the metric radio
MetricDisplays(df) ==
  LET cols == NumericColumns(df)
  IN DistinctInOrder([i \in 1..Len(cols) |-> Get(ColMapping, cols[i])])

\* the value a radio or selectbox returns: the user's choice, or the first
\* option when that choice is not among the options
Chosen(choice, displays) == IF choice \in Range(displays) THEN choice ELSE displays[1]

\* options[selected_display]: the last column with that display name
ValueColOf(df, display) ==
  LET cols == NumericColumns(df)
      hits == {i \in 1..Len(cols) : Get(ColMapping, cols[i]) = display}
  IN cols[CHOOSE i \in hits : \A j \in hits : j <= i]

\* list(uf_options.keys()), or the succeeded list itself under "Produto"
GroupDisplays(option, groups) ==
  IF option = "Estado (UF)"
  THEN DistinctInOrder([i \in 1..Len(groups) |-> Get(UfMapping, groups[i])])
  ELSE groups

\* the display name taken for the key
SelectedGroupDisplay(option, groups, full) == full

\* selected_group: uf_options[selected_full], or the selection itself
SelectedGroup(option, groups, full) ==
  IF option = "Estado (UF)"
  THEN LET hits == {i \in 1..Len(groups) : Get(UfMapping, groups[i]) = full}
       IN groups[CHOOSE i \in hits : \A j \in hits : j <= i]
  ELSE full

\* The part of one script run from the Run button on: s holds the session
\* (analysis, successful_groups) and the ghosts of the class.
RunAnalysis(s, df, option, value_col) ==
  LET r == DecomposeSeries(NewAnalysis(df, GroupColOf(option), value_col, DefaultPeriod),
                           "Error")
  IN IF r.outcome = "returned"
     THEN [s EXCEPT !.analysis = r.analysis, !.outcome = r.outcome,
                    !.attempted = r.attempted, !.calls = 1,
                    !.session_groups = [present |-> TRUE, list |-> r.analysis.successful_groups],
                    !.stopped = FALSE]
     ELSE [s EXCEPT !.analysis = r.analysis, !.outcome = r.outcome,
                    !.attempted = r.attempted, !.calls = 1,
                    !.screen = "exception", !.stopped = TRUE]

PlotSection(s, option, full, plot_pressed) ==
  IF ~s.session_groups.present \/ s.session_groups.list = <<>>
  THEN [s EXCEPT !.screen = "metrics"]
  ELSE IF ~plot_pressed THEN [s EXCEPT !.screen = "groups"]
  ELSE IF s.analysis = NoObj THEN [s EXCEPT !.screen = "error_no_analysis"]
  ELSE LET displays == GroupDisplays(option, s.session_groups.list)
           group == SelectedGroup(option, s.session_groups.list,
                                  Chosen(full, displays))
           r == PlotDecomposition(s.analysis, group)
       IN [s EXCEPT !.analysis = r.analysis,
                    !.plot = [group |-> group, outcome |-> r.outcome],
                    !.screen = r.outcome]

\* one run of the script, top to bottom, with the widget values given
ScriptRun(s, fs, option, display, full, run_pressed, plot_pressed) ==
  LET df == LoadData(fs, option)
  IN IF df = Absent THEN [s EXCEPT !.screen = "load_error"]
     ELSE IF NumericColumns(df) = <<>> THEN [s EXCEPT !.screen = "no_numeric"]
     ELSE LET value_col == ValueColOf(df, Chosen(display, MetricDisplays(df)))
              ran == IF run_pressed THEN RunAnalysis(s, df, option, value_col)
                     ELSE [s EXCEPT !.stopped = FALSE]
          IN IF ran.stopped THEN ran ELSE PlotSection(ran, option, full, plot_pressed)

Current ==
  [analysis |-> analysis, outcome |-> outcome, attempted |-> attempted, calls |-> calls,
   plot |-> plot, session_groups |-> session_groups, screen |-> screen, stopped |-> FALSE]

Rerun(option, display, full, run_pressed, plot_pressed) ==
  \E s \in {ScriptRun(Current, files, option, display, full, run_pressed, plot_pressed)} :
     /\ analysis' = s.analysis
     /\ outcome' = s.outcome
     /\ attempted' = s.attempted
     /\ calls' = s.calls
     /\ plot' = s.plot
     /\ session_groups' = s.session_groups
     /\ screen' = s.screen
     /\ groupby_option' = option
     /\ selected_display' = display
     /\ selected_full' = full
     /\ UNCHANGED files

\* which widgets the last run left on the page
MetricsShown == screen \in {"metrics", "groups", "warning", "chart", "error_no_analysis", "exception"}
GroupsShown == screen \in {"groups", "warning", "chart", "error_no_analysis"}

ChangeGrouping(option) ==
  /\ option # groupby_option
  /\ Rerun(option, selected_display, selected_full, FALSE, FALSE)

ChangeMetric(display) ==
  /\ MetricsShown
  /\ display \in Range(MetricDisplays(LoadData(files, groupby_option)))
  /\ display # selected_display
  /\ Rerun(groupby_option, display, selected_full, FALSE, FALSE)

PressRun ==
  /\ MetricsShown
  /\ Rerun(groupby_option, selected_display, selected_full, TRUE, FALSE)

SelectGroup(full) ==
  /\ GroupsShown
  /\ full \in Range(GroupDisplays(groupby_option, session_groups.list))
  /\ full # selected_full
  /\ Rerun(groupby_option, selected_display, full, FALSE, FALSE)

PressPlot ==
  /\ GroupsShown
  /\ Rerun(groupby_option, selected_display, selected_full, FALSE, TRUE)

\* the CSV files: absent, or blocks of monthly rows per group
UiBlock(cols, gcol, key, n) ==
  [i \in 1..n |-> [c \in cols \ {TimeCol} |->
                     IF c = gcol THEN key ELSE IF c = Metric1 THEN "num" ELSE "nan"]]

UiFile(cols, gcol, k1, n1, k2, n2) ==
  [columns |-> cols,
   labels |-> [i \in 1..n1 |-> i] \o [i \in 1..n2 |-> i],
   rows |-> UiBlock(cols, gcol, k1, n1) \o UiBlock(cols, gcol, k2, n2)]

UiCounts == {0, 2 * DefaultPeriod - 1, 2 * DefaultPeriod}

UiFiles(option, k1, k2) ==
  LET g == GroupColOf(option)
  IN {NoFile,
      UiFile({g, Metric1, Metric2}, g, k1, 2 * DefaultPeriod, k2, 0),
      UiFile({TimeCol, g}, g, k1, 2 * DefaultPeriod, k2, 0),
      UiFile({TimeCol, Metric1, Metric2}, g, k1, 2 * DefaultPeriod, k2, 0)}
       \cup {UiFile({TimeCol, g, Metric1, Metric2}, g, k1, n1, k2, n2) :
               n1 \in UiCounts, n2 \in UiCounts}

InitUI ==
  /\ files \in {[o \in Options |-> IF o = "Produto" THEN fp ELSE fu] :
                  fp \in UiFiles("Produto", "RR", "SOJA"),
                  fu \in UiFiles("Estado (UF)", "AC", "Acre")}
  /\ groupby_option = "Produto"
  /\ selected_display = Unset
  /\ selected_full = Unset
  /\ \E s \in {ScriptRun([analysis |-> NoObj, outcome |-> "none", attempted |-> <<>>,
                         calls |-> 0, plot |-> [group |-> Unset, outcome |-> "none"],
                         session_groups |-> NoGroups, screen |-> "none", stopped |-> FALSE],
                        files, "Produto", Unset, Unset, FALSE, FALSE)} :
        /\ analysis = s.analysis
        /\ outcome = s.outcome
        /\ attempted = s.attempted
        /\ calls = s.calls
        /\ plot = s.plot
        /\ session_groups = s.session_groups
        /\ screen = s.screen

NextUI ==
  \/ \E option \in Options : ChangeGrouping(option)
  \/ \E display \in Image(ColMapping) : ChangeMetric(display)
  \/ PressRun
  \/ \E full \in AllKeys \cup Image(UfMapping) : SelectGroup(full)
  \/ PressPlot

Spec == Init /\ [][Next]_vars
SpecAnyIndex == InitAnyIndex /\ [][Next]_vars
SpecUI == InitUI /\ [][NextUI]_vars


\* ================================================================ claims
\* What the claims speak of, read off the object's frame directly.
HasCols ==
  /\ analysis.groupby_col \in analysis.df.columns
  /\ analysis.value_col \in analysis.df.columns
RowsOf(g) ==
  {i \in 1..Len(analysis.df.rows) : analysis.df.rows[i][analysis.groupby_col] = g}
Groups == {analysis.df.rows[i][analysis.groupby_col] : i \in 1..Len(analysis.df.rows)}
NonMissing(g) ==
  Cardinality({i \in RowsOf(g) : analysis.df.rows[i][analysis.value_col] # "nan"})
HasGap(g) == \E i \in RowsOf(g) : analysis.df.rows[i][analysis.value_col] = "nan"
HasInf(g) == \E i \in RowsOf(g) : analysis.df.rows[i][analysis.value_col] = "inf"
FirstRow(g) == CHOOSE i \in RowsOf(g) : \A j \in RowsOf(g) : i <= j
Succeeded == analysis.successful_groups
ValidCall == HasCols /\ analysis.period > 0
FirstCallReturned == calls = 1 /\ outcome = "returned" /\ ValidCall

\* C1 as stated: after one decompose_series on a new object the succeeded list
\* has N-K entries, K counting the groups with fewer than 2*period non-missing
\* observations, and every entry has at least 2*period of them.
C1_Original ==
  FirstCallReturned =>
    /\ Len(Succeeded)
         = Cardinality(Groups) - Cardinality({g \in Groups : NonMissing(g) < 2 * analysis.period})
    /\ \A i \in 1..Len(Succeeded) : NonMissing(Succeeded[i]) >= 2 * analysis.period

\* C1 amended: K also counts the groups holding an infinite value (dropna keeps
\* it, the decomposition rejects it); rows with a missing value are excluded
\* before the count, so a group with gaps succeeds on its remaining rows.
C1_CompleteUpToFiniteness ==
  FirstCallReturned =>
    /\ Len(Succeeded)
         = Cardinality(Groups)
             - Cardinality({g \in Groups : NonMissing(g) < 2 * analysis.period \/ HasInf(g)})
    /\ \A i \in 1..Len(Succeeded) :
         /\ NonMissing(Succeeded[i]) >= 2 * analysis.period
         /\ ~HasInf(Succeeded[i])

\* a group with a gap succeeded while another group was too short
C1_Witness ==
  /\ FirstCallReturned
  /\ \E g \in Groups : HasGap(g) /\ g \in Range(Succeeded)
  /\ \E g \in Groups : NonMissing(g) < 2 * analysis.period /\ g \notin Range(Succeeded)

\* C2 as stated: the succeeded list follows the order in which the group values
\* first appear in the rows of the table.
C2_Original ==
  FirstCallReturned =>
    \A i, j \in 1..Len(Succeeded) : i < j => FirstRow(Succeeded[i]) < FirstRow(Succeeded[j])

\* C2 amended: the succeeded list follows the ascending order of the group
\* keys (groupby sorts them), whatever the order of the rows.
C2_SortedOrder ==
  FirstCallReturned =>
    \A i, j \in 1..Len(Succeeded) : i < j => KeyRank(Succeeded[i]) < KeyRank(Succeeded[j])

\* two groups succeeded and the later key appears first in the table
C2_Witness ==
  /\ FirstCallReturned
  /\ Len(Succeeded) = 2
  /\ FirstRow(Succeeded[2]) < FirstRow(Succeeded[1])

\* C3: decompose_series with a grouping or value column the table lacks ends
\* in an error before any partition is processed, for every table.
C3_MissingColumnRaises ==
  (calls >= 1 /\ ~HasCols) => (outcome = "KeyError" /\ attempted = <<>>)

\* C4: decompose_series with a period <= 0 ends in an error surfaced to the
\* caller, never in a normal return.
C4_BadPeriodRaises ==
  (calls >= 1 /\ HasCols /\ analysis.period <= 0) => outcome # "returned"

\* C5: a second decompose_series on the same object leaves the succeeded list
\* and the keys of the results mapping as a single invocation leaves them.
C5_Idempotent ==
  (calls = 2 /\ outcome = "returned" /\ ValidCall) =>
    LET once == DecomposeSeries(NewAnalysis(analysis.df, analysis.groupby_col,
                                            analysis.value_col, analysis.period),
                                "ValueError").analysis
    IN /\ Succeeded = once.successful_groups
       /\ DOMAIN analysis.results = DOMAIN once.results

\* C6: plot_decomposition of a group that is not a key of the results mapping
\* shows the warning, raises nothing and leaves the object as it was.
C6_LookupMissIsSafe ==
  [][\A g \in ApiKeys :
       (Plot(g) /\ g \notin DOMAIN analysis.results) =>
         (plot'.outcome = "warning" /\ analysis' = analysis)]_vars

\* a miss on an object whose every partition failed
C6_Witness ==
  /\ plot.outcome = "warning"
  /\ calls = 1 /\ outcome = "returned"
  /\ Groups # {} /\ analysis.results = EmptyMap

\* C7: with the columns present and a positive period, a partition's failure
\* never aborts the call: every group is attempted exactly once, a failed group
\* is in neither the mapping nor the succeeded list, and when every group fails
\* the call returns with both empty.
C7_FailureIsolated ==
  (calls >= 1 /\ ValidCall) =>
    /\ outcome = "returned"
    /\ Range(attempted) = Groups
    /\ Len(attempted) = Cardinality(Groups)
    /\ \A g \in Groups :
         (NonMissing(g) < 2 * analysis.period \/ HasInf(g)) =>
           (g \notin DOMAIN analysis.results /\ g \notin Range(Succeeded))
    /\ (\A g \in Groups : NonMissing(g) < 2 * analysis.period \/ HasInf(g)) =>
         (analysis.results = EmptyMap /\ Succeeded = <<>>)

\* the first group attempted failed and the next one succeeded
C7_Witness ==
  /\ calls = 1 /\ ValidCall
  /\ Len(attempted) = 2
  /\ attempted[1] \notin Range(Succeeded)
  /\ attempted[2] \in Range(Succeeded)

\* C9: the keys of the results mapping are the groups of the succeeded list,
\* and no group occurs twice in the succeeded list.
C9_KeysMatchOnce ==
  /\ DOMAIN analysis.results = Range(Succeeded)
  /\ \A i, j \in 1..Len(Succeeded) : Succeeded[i] = Succeeded[j] => i = j

\* C8 as stated: plotting a group leaves the whole object, the index of every
\* stored component series included, as it was.
C8_Original ==
  [][\A g \in ApiKeys : Plot(g) => analysis' = analysis]_vars

Components == {"observed", "trend", "seasonal", "resid"}

\* C8 amended: plotting a group recomputes nothing and leaves the succeeded
\* list, the keys of the mapping, every other group's result and the values of
\* the plotted group's four components as they were; an index of the plotted
\* group that is already a DatetimeIndex is untouched, any other index is
\* replaced in place by a DatetimeIndex of the same length.
C8_PlotOnlyCoercesIndex ==
  [][\A g \in ApiKeys :
       Plot(g) =>
         /\ analysis' = [analysis EXCEPT !.results = analysis'.results]
         /\ DOMAIN analysis'.results = DOMAIN analysis.results
         /\ \A k \in DOMAIN analysis.results :
              /\ k # g => analysis'.results[k] = analysis.results[k]
              /\ \A c \in Components :
                   LET old == analysis.results[k][c]
                       new == analysis'.results[k][c]
                   IN /\ new.values = old.values
                      /\ Len(new.index.labels) = Len(old.index.labels)
                      /\ old.index.cls = "DatetimeIndex" => new.index = old.index
                      /\ (k = g /\ old.index.cls # "DatetimeIndex")
                           => new.index.cls = "DatetimeIndex"]_vars

\* a stored result built on a non-datetime index has been plotted
C8_Witness ==
  /\ plot.outcome = "chart"
  /\ analysis.df.index.cls = "Index"
  /\ plot.group \in DOMAIN analysis.results
  /\ analysis.results[plot.group]["observed"].index.cls = "DatetimeIndex"

====
